---- MODULE Spec2Model ----
(***************************************************************************)
(* The bar-data preview scripts of Traderhs/Backtesting.                   *)
(*                                                                         *)
(*   Sources/Py/BarDataReader.py, Sources/Py/ParquetReader.py              *)
(*       read a parquet table, take head(20) / tail(20) copies, print the  *)
(*       raw slices, rewrite the two time columns of each slice as text,   *)
(*       print a rule and the rewritten slices.                            *)
(*   Sources/Py/ParquetReader.py (lines 29-38, disabled block)             *)
(*       the missing-bar check over the 'Open Time' column.                *)
(*   Sources/Py/test.py                                                    *)
(*       one HTTP POST, then the status code and the body.                 *)
(*                                                                         *)
(* Epoch-millisecond values exceed 32 bits, so a value v is kept as two    *)
(* decimal limbs: v = hi * 10^6 + lo with 0 <= lo < 10^6.                  *)
(***************************************************************************)
EXTENDS Integers, Sequences, FiniteSets, TLC

VARIABLES
    file,      \* what is stored at the hardcoded path
    platform,  \* how the C library's strftime treats a directive it does not know
    hc, tc,    \* the row counts handed to head() and tail()
    df,        \* the loaded table
    head,      \* df.head(hc).copy()
    tail,      \* df.tail(tc).copy()
    out,       \* standard output, one item per printed argument
    pc,        \* the statement about to run
    err,       \* the uncaught exception that ended the script, or "none"
    plus,      \* gap check: the first delta
    li,        \* gap check: the collected 'Open Time' values
    i,         \* gap check: the loop index (as in the source, 0-based rows)
    sent,      \* HTTP script: requests issued
    resp       \* HTTP script: the response received

vars == <<file, platform, hc, tc, df, head, tail, out, pc, err, plus, li, i, sent, resp>>

(***************************************************************************)
(* Bounds of the model.                                                    *)
(***************************************************************************)
MaxLen == 41
MaxSelLen == 4
MaxCount == 5
MaxGapLen == 5

(***************************************************************************)
(* Program constants.                                                      *)
(***************************************************************************)
HeadCount == 20
TailCount == 20
RuleWidth == 130

Min(a, b) == IF a < b THEN a ELSE b
Max(a, b) == IF a > b THEN a ELSE b

(***************************************************************************)
(* Epoch milliseconds as two decimal limbs.                                *)
(***************************************************************************)
Limb == 1000 * 1000

W(h, l) == [hi |-> h, lo |-> l]

WAdd(a, n) ==
    LET s == a.lo + n
    IN  [hi |-> a.hi + (s \div Limb), lo |-> s % Limb]

WSub(a, b) ==
    LET d == a.lo - b.lo
    IN  [hi |-> a.hi - b.hi + (d \div Limb), lo |-> d % Limb]

WLess(a, b) == a.hi < b.hi \/ (a.hi = b.hi /\ a.lo < b.lo)

(***************************************************************************)
(* Cells of a time column: an int64 (as read from the file), text (after   *)
(* strftime) or a datetime64 (after to_datetime).                          *)
(***************************************************************************)
IntCell(w) == [kind |-> "int", hi |-> w.hi, lo |-> w.lo, str |-> ""]
StrCell(s) == [kind |-> "str", hi |-> 0, lo |-> 0, str |-> s]
DatetimeCell(w) == [kind |-> "datetime", hi |-> w.hi, lo |-> w.lo, str |-> ""]
WideOf(c) == W(c.hi, c.lo)

OpenTime == "Open Time"
CloseTime == "Close Time"
Columns == {OpenTime, CloseTime}

Bar(o, c) == (OpenTime :> IntCell(o)) @@ (CloseTime :> IntCell(c))

(***************************************************************************)
(* The stored tables.  timeframe = "1h": bar k opens at t0 + k * 1h and    *)
(* closes one millisecond before the next bar opens.                       *)
(***************************************************************************)
Interval == 60 * 60 * 1000

EpochStart == W(0, 0)
KnownEpoch == W(1567962, 0)            \* 1567962000000 ms
TimestampMax == W(9223372, 36854)      \* pandas.Timestamp.max in ms
TooLate == W(9223373, 0)               \* an int64 past Timestamp.max
StartTimes == {EpochStart, KnownEpoch}

BarTable(n, t0) ==
    [k \in 1..n |-> Bar(WAdd(t0, (k - 1) * Interval), WAdd(t0, k * Interval - 1))]

Spoil(t, k, col) == [t EXCEPT ![k][col] = IntCell(TooLate)]

CleanTables(maxLen) == {BarTable(n, t0) : n \in 0..maxLen, t0 \in StartTimes}

SpoiltTables(maxLen) ==
    {Spoil(BarTable(n, t0), k, col) :
        n \in {m \in 1..maxLen : m \in {1, 2, maxLen}},
        t0 \in StartTimes, k \in {1}, col \in Columns}
    \cup {Spoil(BarTable(n, t0), n, col) :
        n \in {m \in 1..maxLen : m \in {2, maxLen}},
        t0 \in StartTimes, col \in Columns}

Stored(t) == [ok |-> TRUE, why |-> "none", table |-> t]
Unreadable(why) == [ok |-> FALSE, why |-> why, table |-> <<>>]

Files(maxLen) ==
    {Stored(t) : t \in CleanTables(maxLen) \cup SpoiltTables(maxLen)}
    \cup {Unreadable("FileNotFoundError"), Unreadable("ArrowInvalid")}

Platforms == {"literal", "minute", "error"}

(***************************************************************************)
(* pandas head / tail.                                                     *)
(***************************************************************************)
DfHeadShort(t, n) == SubSeq(t, 1, Min(n, Len(t)) - 1)

DfHead(t, n) == SubSeq(t, 1, Min(n, Len(t)))

DfTailNoZeroCase(t, n) ==
    SubSeq(t, (IF n = 0 THEN 0 ELSE Max(Len(t) - n, 0)) + 1, Len(t))

DfTail(t, n) ==
    IF n = 0 THEN <<>> ELSE SubSeq(t, Max(Len(t) - n, 0) + 1, Len(t))

(***************************************************************************)
(* pd.to_datetime(column, unit='ms'): an int64 within the datetime64[ns]   *)
(* range becomes a datetime; anything else raises.                         *)
(***************************************************************************)
SecondsAsMicros(w) == w.hi

EpochSeconds(w) == w.hi * 1000 + (w.lo \div 1000)

ToDatetimeError(c) ==
    IF c.kind # "int" THEN "ValueError"
    ELSE IF WLess(TimestampMax, WideOf(c)) THEN "OutOfBoundsDatetime"
    ELSE "none"

(***************************************************************************)
(* The calendar fields of a count of seconds since the epoch (UTC).        *)
(***************************************************************************)
Civil(sec) ==
    LET days == sec \div 86400
        rem  == sec % 86400
        z    == days + 719468
        era  == z \div 146097
        doe  == z % 146097
        yoe  == (doe - (doe \div 1460) + (doe \div 36524) - (doe \div 146096)) \div 365
        doy  == doe - (365 * yoe + (yoe \div 4) - (yoe \div 100))
        mp   == (5 * doy + 2) \div 153
        d    == doy - ((153 * mp + 2) \div 5) + 1
        m    == IF mp < 10 THEN mp + 3 ELSE mp - 9
        y    == yoe + era * 400 + (IF m <= 2 THEN 1 ELSE 0)
    IN  [Y |-> y, m |-> m, d |-> d,
         H |-> rem \div 3600, M |-> (rem % 3600) \div 60, S |-> rem % 60]

Digits == <<"0", "1", "2", "3", "4", "5", "6", "7", "8", "9">>
D1(n) == Digits[(n % 10) + 1]
D2(n) == D1(n \div 10) \o D1(n)
D4(n) == D2(n \div 100) \o D2(n % 100)

(***************************************************************************)
(* strftime.  A format is its sequence of directives and literals.         *)
(***************************************************************************)
OpenTimeFormat == <<"%Y", "-", "%m", "-", "%d", " ", "%H", ":", "%M", ":", "%S">>
CloseTimeFormatHead == <<"%Y", "-", "%m", "-", "%d", " ", "%H", ":", "%+M", ":", "%S">>
CloseTimeFormatTail == <<"%Y", "-", "%m", "-", "%d", " ", "%H", ":", "%M", ":", "%S">>

KnownDirectives == {"%Y", "%m", "%d", "%H", "%M", "%S"}
IsDirective(tok) == tok \in KnownDirectives \cup {"%+M"}

Expand(tok, f) ==
    CASE tok = "%Y" -> D4(f.Y)
      [] tok = "%m" -> D2(f.m)
      [] tok = "%d" -> D2(f.d)
      [] tok = "%H" -> D2(f.H)
      [] tok = "%M" -> D2(f.M)
      [] tok = "%S" -> D2(f.S)
      [] tok = "%+M" -> (IF platform = "minute" THEN D2(f.M) ELSE tok)
      [] OTHER -> tok

RECURSIVE StrftimeFrom(_, _, _)
StrftimeFrom(fmt, f, k) ==
    IF k > Len(fmt) THEN "" ELSE Expand(fmt[k], f) \o StrftimeFrom(fmt, f, k + 1)

Strftime(fmt, w) == StrftimeFrom(fmt, Civil(EpochSeconds(w)), 1)

StrftimeRaises(fmt) ==
    platform = "error" /\ \E k \in 1..Len(fmt) : IsDirective(fmt[k]) /\ fmt[k] \notin KnownDirectives

(***************************************************************************)
(* frame[col] = pd.to_datetime(frame[col], unit='ms').dt.strftime(fmt)     *)
(***************************************************************************)
RewriteError(frame, col, fmt) ==
    IF \E k \in 1..Len(frame) : ToDatetimeError(frame[k][col]) # "none"
    THEN ToDatetimeError(
            frame[CHOOSE k \in 1..Len(frame) :
                    /\ ToDatetimeError(frame[k][col]) # "none"
                    /\ \A j \in 1..(k - 1) : ToDatetimeError(frame[j][col]) = "none"][col])
    ELSE IF Len(frame) > 0 /\ StrftimeRaises(fmt) THEN "ValueError"
    ELSE "none"

Rewritten(frame, col, fmt) ==
    [k \in 1..Len(frame) |->
        [frame[k] EXCEPT ![col] = StrCell(Strftime(fmt, WideOf(frame[k][col])))]]

(***************************************************************************)
(* Standard output: print(a, b, ...) appends one item per argument.        *)
(***************************************************************************)
Item(kind, text, frame, n) == [kind |-> kind, text |-> text, frame |-> frame, n |-> n]
Label(text) == Item("label", text, <<>>, 0)
Dump(frame) == Item("frame", "", frame, Len(frame))
Gap == Item("gap", "", <<>>, 0)
RowsLabel == Item("rowslabel", "rows: ", <<>>, 0)
Count(n) == Item("count", "", <<>>, n)
Newline == Item("newline", "", <<>>, 0)
Rule(n) == Item("rule", "=", <<>>, n)

RawLabel == "raw data"
AdjustedLabel == "time-adjusted data"

RawReport ==
    <<Label(RawLabel), Dump(head), Gap, Dump(tail), RowsLabel, Count(Len(df)), Newline>>

AdjustedReportSliceCount ==
    <<Label(AdjustedLabel), Dump(head), Gap, Dump(tail), RowsLabel, Count(Len(tail))>>

AdjustedReport ==
    <<Label(AdjustedLabel), Dump(head), Gap, Dump(tail), RowsLabel, Count(Len(df))>>

(***************************************************************************)
(* The preview script, statement by statement.  An uncaught exception      *)
(* leaves pc at the statement that raised and sets err; nothing runs       *)
(* after it.                                                               *)
(***************************************************************************)
Running(at) == pc = at /\ err = "none"

Raise(e) == err' = e /\ UNCHANGED pc

ReadParquetSwallow ==
    /\ Running("read")
    /\ df' = file.table
    /\ pc' = "select"
    /\ UNCHANGED <<file, platform, hc, tc, head, tail, out, err, plus, li, i, sent, resp>>

ReadParquet ==
    /\ Running("read")
    /\ IF file.ok
       THEN /\ df' = file.table
            /\ pc' = "select"
            /\ UNCHANGED err
       ELSE /\ Raise(file.why)
            /\ UNCHANGED df
    /\ UNCHANGED <<file, platform, hc, tc, head, tail, out, plus, li, i, sent, resp>>

SelectWindow ==
    /\ Running("select")
    /\ head' = DfHead(df, hc)
    /\ tail' = DfTail(df, tc)
    /\ pc' = "print_raw"
    /\ UNCHANGED <<file, platform, hc, tc, df, out, err, plus, li, i, sent, resp>>

PrintRaw ==
    /\ Running("print_raw")
    /\ out' = out \o RawReport
    /\ pc' = "head_open"
    /\ UNCHANGED <<file, platform, hc, tc, df, head, tail, err, plus, li, i, sent, resp>>

RewriteHeadOpenTimeInDf ==
    /\ Running("head_open")
    /\ IF RewriteError(head, OpenTime, OpenTimeFormat) = "none"
       THEN /\ df' = Rewritten(head, OpenTime, OpenTimeFormat)
                        \o SubSeq(df, Len(head) + 1, Len(df))
            /\ pc' = "head_close"
            /\ UNCHANGED err
       ELSE /\ Raise(RewriteError(head, OpenTime, OpenTimeFormat))
            /\ UNCHANGED df
    /\ UNCHANGED <<file, platform, hc, tc, head, tail, out, plus, li, i, sent, resp>>

RewriteHeadOpenTime ==
    /\ Running("head_open")
    /\ IF RewriteError(head, OpenTime, OpenTimeFormat) = "none"
       THEN /\ head' = Rewritten(head, OpenTime, OpenTimeFormat)
            /\ pc' = "head_close"
            /\ UNCHANGED err
       ELSE /\ Raise(RewriteError(head, OpenTime, OpenTimeFormat))
            /\ UNCHANGED head
    /\ UNCHANGED <<file, platform, hc, tc, df, tail, out, plus, li, i, sent, resp>>

RewriteHeadCloseTime ==
    /\ Running("head_close")
    /\ IF RewriteError(head, CloseTime, CloseTimeFormatHead) = "none"
       THEN /\ head' = Rewritten(head, CloseTime, CloseTimeFormatHead)
            /\ pc' = "tail_open"
            /\ UNCHANGED err
       ELSE /\ Raise(RewriteError(head, CloseTime, CloseTimeFormatHead))
            /\ UNCHANGED head
    /\ UNCHANGED <<file, platform, hc, tc, df, tail, out, plus, li, i, sent, resp>>

RewriteTailOpenTime ==
    /\ Running("tail_open")
    /\ IF RewriteError(tail, OpenTime, OpenTimeFormat) = "none"
       THEN /\ tail' = Rewritten(tail, OpenTime, OpenTimeFormat)
            /\ pc' = "tail_close"
            /\ UNCHANGED err
       ELSE /\ Raise(RewriteError(tail, OpenTime, OpenTimeFormat))
            /\ UNCHANGED tail
    /\ UNCHANGED <<file, platform, hc, tc, df, head, out, plus, li, i, sent, resp>>

RewriteTailCloseTime ==
    /\ Running("tail_close")
    /\ IF RewriteError(tail, CloseTime, CloseTimeFormatTail) = "none"
       THEN /\ tail' = Rewritten(tail, CloseTime, CloseTimeFormatTail)
            /\ pc' = "rule"
            /\ UNCHANGED err
       ELSE /\ Raise(RewriteError(tail, CloseTime, CloseTimeFormatTail))
            /\ UNCHANGED tail
    /\ UNCHANGED <<file, platform, hc, tc, df, head, out, plus, li, i, sent, resp>>

PrintRule ==
    /\ Running("rule")
    /\ out' = Append(out, Rule(RuleWidth))
    /\ pc' = "print_adjusted"
    /\ UNCHANGED <<file, platform, hc, tc, df, head, tail, err, plus, li, i, sent, resp>>

PrintAdjusted ==
    /\ Running("print_adjusted")
    /\ out' = out \o AdjustedReport
    /\ pc' = "done"
    /\ UNCHANGED <<file, platform, hc, tc, df, head, tail, err, plus, li, i, sent, resp>>

Idle ==
    /\ df = <<>> /\ head = <<>> /\ tail = <<>> /\ out = <<>>
    /\ err = "none"
    /\ plus = W(0, 0) /\ li = <<>> /\ i = 0
    /\ sent = 0 /\ resp = [received |-> FALSE, status_code |-> 0, text |-> ""]

Init ==
    /\ file \in Files(MaxLen)
    /\ platform \in Platforms
    /\ hc = HeadCount
    /\ tc = TailCount
    /\ pc = "read"
    /\ Idle

Next ==
    \/ ReadParquet
    \/ SelectWindow
    \/ PrintRaw
    \/ RewriteHeadOpenTime
    \/ RewriteHeadCloseTime
    \/ RewriteTailOpenTime
    \/ RewriteTailCloseTime
    \/ PrintRule
    \/ PrintAdjusted

Spec == Init /\ [][Next]_vars

(***************************************************************************)
(* head() and tail() for any pair of counts: the same two statements with  *)
(* the counts drawn from 0..MaxCount rather than fixed at 20.              *)
(***************************************************************************)
InitSel ==
    /\ file \in Files(MaxSelLen)
    /\ platform = "literal"
    /\ hc \in 0..MaxCount
    /\ tc \in 0..MaxCount
    /\ pc = "read"
    /\ Idle

NextSel ==
    \/ ReadParquet
    \/ SelectWindow

SpecSel == InitSel /\ [][NextSel]_vars

(***************************************************************************)
(* The missing-bar check (ParquetReader.py, the block after the report).   *)
(* Tables whose consecutive 'Open Time' deltas are one or two intervals.   *)
(***************************************************************************)
Steps == {Interval, 2 * Interval}

RECURSIVE OpenTimes(_, _)
OpenTimes(n, t0) ==
    IF n = 0 THEN {<<>>}
    ELSE IF n = 1 THEN {<<t0>>}
    ELSE {Append(s, WAdd(s[Len(s)], d)) : s \in OpenTimes(n - 1, t0), d \in Steps}

BarsAt(opens) == [k \in 1..Len(opens) |-> Bar(opens[k], WAdd(opens[k], Interval - 1))]

GapTables ==
    UNION {{BarsAt(o) : o \in OpenTimes(n, t0)} : n \in 0..MaxGapLen, t0 \in StartTimes}

\* df['Open Time'][k], k a 0-based row label
OpenTimeAt(t, k) == WideOf(t[k + 1][OpenTime])

DeltaGrows(t, k, p) == WLess(p, WSub(OpenTimeAt(t, k), OpenTimeAt(t, k - 1)))

DeltaDiffers(t, k, p) == WSub(OpenTimeAt(t, k), OpenTimeAt(t, k - 1)) # p

GapPlus ==
    /\ Running("gap_plus")
    /\ IF Len(df) >= 2
       THEN /\ plus' = WSub(OpenTimeAt(df, 1), OpenTimeAt(df, 0))
            /\ li' = <<>>
            /\ i' = 1
            /\ pc' = "gap_loop"
            /\ UNCHANGED err
       ELSE /\ Raise("KeyError")
            /\ UNCHANGED <<plus, li, i>>
    /\ UNCHANGED <<file, platform, hc, tc, df, head, tail, out, sent, resp>>

GapLoopBody ==
    /\ Running("gap_loop")
    /\ i < Len(df)
    /\ li' = IF DeltaDiffers(df, i, plus) THEN Append(li, df[i + 1][OpenTime]) ELSE li
    /\ i' = i + 1
    /\ UNCHANGED <<file, platform, hc, tc, df, head, tail, out, pc, err, plus, sent, resp>>

GapLoopEnd ==
    /\ Running("gap_loop")
    /\ i >= Len(df)
    /\ pc' = "gap_convert"
    /\ UNCHANGED <<file, platform, hc, tc, df, head, tail, out, err, plus, li, i, sent, resp>>

GapConvert ==
    /\ Running("gap_convert")
    /\ IF \A k \in 1..Len(li) : ToDatetimeError(li[k]) = "none"
       THEN /\ li' = [k \in 1..Len(li) |-> DatetimeCell(WideOf(li[k]))]
            /\ pc' = "gap_print"
            /\ UNCHANGED err
       ELSE /\ Raise("OutOfBoundsDatetime")
            /\ UNCHANGED li
    /\ UNCHANGED <<file, platform, hc, tc, df, head, tail, out, plus, i, sent, resp>>

GapPrint ==
    /\ Running("gap_print")
    /\ out' = Append(out, Item("index", "", li, Len(li)))
    /\ pc' = "gap_done"
    /\ UNCHANGED <<file, platform, hc, tc, df, head, tail, err, plus, li, i, sent, resp>>

InitGaps ==
    /\ file = Unreadable("none")
    /\ platform = "literal"
    /\ hc = HeadCount
    /\ tc = TailCount
    /\ pc = "gap_plus"
    /\ df \in GapTables
    /\ head = <<>> /\ tail = <<>> /\ out = <<>>
    /\ err = "none"
    /\ plus = W(0, 0) /\ li = <<>> /\ i = 0
    /\ sent = 0 /\ resp = [received |-> FALSE, status_code |-> 0, text |-> ""]

NextGaps ==
    \/ GapPlus
    \/ GapLoopBody
    \/ GapLoopEnd
    \/ GapConvert
    \/ GapPrint

SpecGaps == InitGaps /\ [][NextGaps]_vars

(***************************************************************************)
(* The HTTP script (test.py).                                              *)
(***************************************************************************)
StatusCodes == {200, 201, 204, 400, 401, 403, 404, 500, 503}
Bodies == {"{}", "[]", "null", "true", "1", "", "<html>", "{"}

\* response.json(): the decoded document as print() shows it, or "invalid"
\* when the decoder raises
JsonDecode(text) ==
    CASE text = "{}" -> "{}"
      [] text = "[]" -> "[]"
      [] text = "null" -> "None"
      [] text = "true" -> "True"
      [] text = "1" -> "1"
      [] OTHER -> "invalid"

Post ==
    /\ Running("post")
    /\ sent' = sent + 1
    /\ \/ /\ Raise("ConnectionError")
          /\ UNCHANGED resp
       \/ /\ \E code \in StatusCodes, body \in Bodies :
                resp' = [received |-> TRUE, status_code |-> code, text |-> body]
          /\ pc' = "print_status"
          /\ UNCHANGED err
    /\ UNCHANGED <<file, platform, hc, tc, df, head, tail, out, plus, li, i>>

PrintStatus ==
    /\ Running("print_status")
    /\ out' = out \o <<Label("Status Code:"), Count(resp.status_code)>>
    /\ pc' = "print_body"
    /\ UNCHANGED <<file, platform, hc, tc, df, head, tail, err, plus, li, i, sent, resp>>

PrintJson ==
    /\ Running("print_body")
    /\ JsonDecode(resp.text) # "invalid"
    /\ out' = Append(out, Item("json", JsonDecode(resp.text), <<>>, 0))
    /\ pc' = "http_done"
    /\ UNCHANGED <<file, platform, hc, tc, df, head, tail, err, plus, li, i, sent, resp>>

PrintTextUncaught ==
    /\ Running("print_body")
    /\ JsonDecode(resp.text) = "invalid"
    /\ Raise("JSONDecodeError")
    /\ UNCHANGED <<file, platform, hc, tc, df, head, tail, out, plus, li, i, sent, resp>>

PrintText ==
    /\ Running("print_body")
    /\ JsonDecode(resp.text) = "invalid"
    /\ out' = Append(out, Item("text", resp.text, <<>>, 0))
    /\ pc' = "http_done"
    /\ UNCHANGED <<file, platform, hc, tc, df, head, tail, err, plus, li, i, sent, resp>>

InitHttp ==
    /\ file = Unreadable("none")
    /\ platform = "literal"
    /\ hc = HeadCount
    /\ tc = TailCount
    /\ pc = "post"
    /\ Idle

NextHttp ==
    \/ Post
    \/ PrintStatus
    \/ PrintJson
    \/ PrintText

SpecHttp == InitHttp /\ [][NextHttp]_vars

(***************************************************************************)
(* Properties.                                                             *)
(***************************************************************************)
Order ==
    <<"read", "select", "print_raw", "head_open", "head_close", "tail_open",
      "tail_close", "rule", "print_adjusted", "done">>

Pos(p) == CHOOSE k \in 1..Len(Order) : Order[k] = p

\* the statement labelled p has run to completion
Past(p) == Pos(pc) > Pos(p)

\* the row of df that row k of the tail slice was copied from
TailSource(k) == df[Len(df) - Len(tail) + k]

\* C1: for every table and all counts h, k >= 0 (0 and counts past the table
\* length included) the head slice holds the first min(h, len) rows and the
\* tail slice the last min(k, len) rows, in source order, and selecting
\* raises nothing.
SelectWindowClamps ==
    /\ pc \in {"select", "print_raw"} => err = "none"
    /\ pc = "print_raw" =>
        /\ Len(head) = Min(hc, Len(df))
        /\ \A k \in 1..Len(head) : head[k] = df[k]
        /\ Len(tail) = Min(tc, Len(df))
        /\ \A k \in 1..Len(tail) : tail[k] = df[Len(df) - Min(tc, Len(df)) + k]

SelectWindowClampsWitness ==
    /\ pc = "print_raw"
    /\ Len(df) >= 2
    /\ hc > Len(df)
    /\ tc = 0

\* C2 as stated: 'Open Time' = 1567962000000 is rewritten as
\* "2019-09-08 13:40:00".
KnownEpochReads1340 ==
    Past("head_open") =>
        \A k \in 1..Len(head) :
            df[k][OpenTime] = IntCell(KnownEpoch)
                => head[k][OpenTime] = StrCell("2019-09-08 13:40:00")

\* C2 amended: 'Open Time' = 1567962000000 is rewritten as
\* "2019-09-08 17:00:00" (UTC), in the head slice and in the tail slice.
KnownEpochReads1700 ==
    /\ Past("head_open") =>
        \A k \in 1..Len(head) :
            df[k][OpenTime] = IntCell(KnownEpoch)
                => head[k][OpenTime] = StrCell("2019-09-08 17:00:00")
    /\ Past("tail_open") =>
        \A k \in 1..Len(tail) :
            TailSource(k)[OpenTime] = IntCell(KnownEpoch)
                => tail[k][OpenTime] = StrCell("2019-09-08 17:00:00")

KnownEpochWitness ==
    /\ pc = "done"
    /\ Len(df) >= 1
    /\ df[1][OpenTime] = IntCell(KnownEpoch)
    /\ head[1][OpenTime].kind = "str"

\* YYYY-MM-DD HH:MM:SS of floor(ms / 1000) seconds, UTC
Canonical(c) ==
    LET f == Civil(c.hi * 1000 + (c.lo \div 1000))
    IN  StrCell(D4(f.Y) \o "-" \o D2(f.m) \o "-" \o D2(f.d) \o " "
                \o D2(f.H) \o ":" \o D2(f.M) \o ":" \o D2(f.S))

\* C3: once the four rewrites have run, every 'Open Time' and 'Close Time'
\* cell of the head slice and of the tail slice holds YYYY-MM-DD HH:MM:SS of
\* floor(ms / 1000) seconds in UTC; no column is in another pattern.
AllTimeCellsCanonical ==
    Past("tail_close") =>
        \A col \in Columns :
            /\ \A k \in 1..Len(head) : head[k][col] = Canonical(df[k][col])
            /\ \A k \in 1..Len(tail) : tail[k][col] = Canonical(TailSource(k)[col])

\* the statement that rewrites column col of a slice, and its format
RewriteOf(slice, col) ==
    IF slice = "head"
    THEN (IF col = OpenTime THEN "head_open" ELSE "head_close")
    ELSE (IF col = OpenTime THEN "tail_open" ELSE "tail_close")

FormatOf(slice, col) ==
    IF col = OpenTime THEN OpenTimeFormat
    ELSE IF slice = "head" THEN CloseTimeFormatHead ELSE CloseTimeFormatTail

\* a cell is the source's integer until its column's rewrite has run, and
\* from then on one strftime of that integer
CellAsExpected(slice, col, cell, source) ==
    IF Past(RewriteOf(slice, col))
    THEN cell = StrCell(Strftime(FormatOf(slice, col), WideOf(source)))
    ELSE cell = source

\* C4: rewriting a time column of one slice changes neither the table nor
\* the other slice, also when the slices overlap: after the load the table
\* keeps its integers and its row count, and every time cell of a slice is
\* the source's integer before its own rewrite and one formatting of that
\* integer after it.
SlicesRewrittenApart ==
    /\ (pc # "read" /\ file.ok) => df = file.table
    /\ \A col \in Columns : \A k \in 1..Len(df) : df[k][col].kind = "int"
    /\ Past("select") =>
        /\ Len(head) = Min(hc, Len(df))
        /\ Len(tail) = Min(tc, Len(df))
        /\ \A col \in Columns :
            /\ \A k \in 1..Len(head) :
                    CellAsExpected("head", col, head[k][col], df[k][col])
            /\ \A k \in 1..Len(tail) :
                    CellAsExpected("tail", col, tail[k][col], TailSource(k)[col])

SlicesRewrittenApartWitness ==
    /\ pc = "tail_open"
    /\ Len(df) > HeadCount
    /\ Len(df) < HeadCount + TailCount
    /\ head[1][OpenTime].kind = "str"
    /\ tail[Len(tail)][OpenTime].kind = "int"

\* C5: when headCount + tailCount >= len(table), every row that lies in both
\* ranges is in both slices, and every row is in at least one; when both
\* counts reach len(table), each slice is the whole table row for row.
OverlapKeptInBoth ==
    (pc = "print_raw" /\ hc + tc >= Len(df)) =>
        /\ \A r \in 1..Len(df) :
            /\ r <= hc \/ r > Len(df) - tc
            /\ (r <= hc /\ r > Len(df) - tc) =>
                    /\ r <= Len(head)
                    /\ head[r] = df[r]
                    /\ r - (Len(df) - Min(tc, Len(df))) \in 1..Len(tail)
                    /\ tail[r - (Len(df) - Min(tc, Len(df)))] = df[r]
        /\ (hc >= Len(df) /\ tc >= Len(df)) => (head = df /\ tail = df)

OverlapKeptInBothWitness ==
    /\ pc = "print_raw"
    /\ Len(df) >= 3
    /\ hc > Len(df)
    /\ tc > Len(df)
    /\ head = df
    /\ tail = df

\* the 1-based rows (from the second on) whose 'Open Time' is not the first
\* delta after the row before
GapRows ==
    {r \in 2..Len(df) :
        WSub(WideOf(df[r][OpenTime]), WideOf(df[r - 1][OpenTime]))
            # WSub(WideOf(df[2][OpenTime]), WideOf(df[1][OpenTime]))}

\* C6: on a table that has a first delta (two rows or more) the gap check
\* raises nothing and runs to its end, and it collects, in
\* ascending row order, exactly the 'Open Time' of the rows whose delta to
\* the row before differs from the first delta: nothing when the delta is
\* constant, and [t0 + 3d] for [t0, t0 + d, t0 + 3d].
FindGapsCollectsDeviations ==
    /\ Len(df) >= 2 => (err = "none" /\ (pc # "gap_done" => ENABLED NextGaps))
    /\ (pc \in {"gap_convert", "gap_print", "gap_done"} /\ err = "none") =>
        /\ Len(li) = Cardinality(GapRows)
        /\ \A r \in GapRows :
              WideOf(li[1 + Cardinality({g \in GapRows : g < r})]) = WideOf(df[r][OpenTime])
        /\ (\A r \in 2..Len(df) :
              WideOf(df[r][OpenTime]) = WAdd(WideOf(df[r - 1][OpenTime]), Interval))
                => li = <<>>
        /\ (/\ Len(df) = 3
            /\ WideOf(df[2][OpenTime]) = WAdd(WideOf(df[1][OpenTime]), Interval)
            /\ WideOf(df[3][OpenTime]) = WAdd(WideOf(df[1][OpenTime]), 3 * Interval))
                => (Len(li) = 1 /\ WideOf(li[1]) = WideOf(df[3][OpenTime]))

FindGapsWitness ==
    /\ pc = "gap_done"
    /\ Len(df) = 3
    /\ WideOf(df[2][OpenTime]) = WAdd(WideOf(df[1][OpenTime]), Interval)
    /\ WideOf(df[3][OpenTime]) = WAdd(WideOf(df[1][OpenTime]), 3 * Interval)
    /\ Len(li) = 1

\* C7: on a table of 0 or 1 rows the gap check raises nothing and ends with
\* an empty sequence.
FindGapsShortTableEmpty ==
    Len(df) < 2 =>
        /\ err = "none"
        /\ li = <<>>
        /\ pc # "gap_done" => ENABLED NextGaps

\* C8 as stated: standard output holds the head dump, a separator, the tail
\* dump and last the row count of the table, and no other dump.
ReportIsOneHeadTailBlock ==
    pc = "done" =>
        LET body == SelectSeq(out, LAMBDA it : it.kind \in {"frame", "gap", "rule", "count"})
        IN  /\ Len(body) = 4
            /\ body[1] = Dump(head)
            /\ body[2].kind \in {"gap", "rule"}
            /\ body[3] = Dump(tail)
            /\ body[4] = Count(Len(df))
            /\ out[Len(out)] = Count(Len(df))

\* C8 amended: standard output holds two blocks with a rule of 130 "="
\* between them, first the slices as loaded and then the rewritten slices;
\* each block is its label, the head dump, a blank gap, the tail dump and
\* last the row count of the whole table.
ReportIsRawRuleAdjusted ==
    pc = "done" =>
        /\ Len(out) = 14
        /\ out[1] = Label(RawLabel)
        /\ out[2] = Dump(SubSeq(file.table, 1, Min(HeadCount, Len(file.table))))
        /\ out[3] = Gap
        /\ out[4] = Dump(SubSeq(file.table,
                                Max(Len(file.table) - TailCount, 0) + 1, Len(file.table)))
        /\ out[5] = RowsLabel
        /\ out[6] = Count(Len(file.table))
        /\ out[7] = Newline
        /\ out[8] = Rule(RuleWidth)
        /\ out[9] = Label(AdjustedLabel)
        /\ out[10] = Dump(head)
        /\ out[11] = Gap
        /\ out[12] = Dump(tail)
        /\ out[13] = RowsLabel
        /\ out[14] = Count(Len(file.table))
        /\ \A k \in 1..Len(head) : \A col \in Columns : head[k][col].kind = "str"
        /\ \A k \in 1..Len(tail) : \A col \in Columns : tail[k][col].kind = "str"

ReportWitness ==
    /\ pc = "done"
    /\ Len(df) = HeadCount + TailCount
    /\ out[10].n = HeadCount
    /\ out[12].frame[1][OpenTime] = Canonical(df[HeadCount + 1][OpenTime])
    /\ out[14].n = HeadCount + TailCount

\* C9 as stated: whenever loading fails or a time value cannot be
\* formatted, nothing of the report has been written to standard output.
FailureLeavesNoOutput ==
    err # "none" => out = <<>>

\* C9 amended: a failure ends the script where it is raised.  A load
\* failure leaves standard output empty; a failure in a rewrite comes after
\* the dump of the slices as loaded (label, head, gap, tail, row count) and
\* before the rule and the dump of the rewritten slices, which are never
\* written.
FailureLeavesOnlyRawDump ==
    /\ ~file.ok => (pc = "read" /\ out = <<>>)
    /\ err # "none" =>
        /\ ~ENABLED Next
        /\ \/ pc = "read" /\ ~file.ok /\ out = <<>>
           \/ /\ pc \in {"head_open", "head_close", "tail_open", "tail_close"}
              /\ Len(out) = 7
              /\ out[1] = Label(RawLabel)
              /\ out[2].frame = SubSeq(file.table, 1, Len(head))
              /\ out[4].frame = SubSeq(file.table, Len(df) - Len(tail) + 1, Len(df))
              /\ out[6] = Count(Len(file.table))
              /\ \A k \in 1..Len(out) : out[k].kind # "rule" /\ out[k] # Label(AdjustedLabel)

FailureWitness ==
    /\ err = "OutOfBoundsDatetime"
    /\ pc = "tail_close"
    /\ Len(out) = 7

\* C10: one request and no second one; once a response is received the
\* script raises nothing, cannot stop before it has printed, and ends with
\* the status code first and then one body item: the decoded document when
\* the body is JSON, the raw text otherwise.
HttpPrintsStatusThenBody ==
    /\ sent <= 1
    /\ pc # "post" => sent = 1
    /\ resp.received =>
        /\ err = "none"
        /\ pc # "http_done" => ENABLED NextHttp
        /\ pc = "http_done" =>
            /\ Len(out) = 3
            /\ out[1] = Label("Status Code:")
            /\ out[2] = Count(resp.status_code)
            /\ IF resp.text \in {"{}", "[]", "null", "true", "1"}
               THEN out[3].kind = "json" /\ out[3].text \in {"{}", "[]", "None", "True", "1"}
               ELSE out[3] = Item("text", resp.text, <<>>, 0)

HttpWitness ==
    /\ pc = "http_done"
    /\ resp.received
    /\ resp.text = "<html>"
    /\ resp.status_code = 503
    /\ out[3].kind = "text"

====
